---------------------------- MODULE Spec2Model ----------------------------
(***************************************************************************)
(* pywebdavserver: the backend configuration store (config.py) and the     *)
(* provider-resolution dispatcher (cli.py).                                *)
(*                                                                         *)
(* Strings are sequences of characters, a character is a natural number:   *)
(* 0 .. NLetters-1 are lower-case letters and NLetters .. 2*NLetters-1 are *)
(* their upper-case forms.  A Python value is a tagged record [t, v] so    *)
(* that values of different Python types can be compared: t is the Python  *)
(* type and v the payload as a sequence of naturals.                       *)
(***************************************************************************)
EXTENDS Integers, Sequences, FiniteSets

VARIABLES store, hist, last, pc, run

vars == <<store, hist, last, pc, run>>

(***************************************************************************)
(* Bounds of the model.                                                    *)
(***************************************************************************)
\* letters of the alphabet (each in a lower- and an upper-case form)
NLetters == 4
\* initialisation vectors the codec may draw
NumIVs == 2
\* records the store holds before the server is started (SpecCli)
MaxStored == 2

NChars == 2 * NLetters

Upper(c) == c + NLetters

(***************************************************************************)
(* Python values.                                                          *)
(***************************************************************************)
Str(s) == [t |-> "str", v |-> s]

Num(n) == [t |-> "int", v |-> <<n>>]

Bool(b) == [t |-> "bool", v |-> <<IF b THEN 1 ELSE 0>>]

None == [t |-> "none", v |-> <<>>]

\* isinstance(x, str)
isstr(x) == x.t = "str"

\* Python truthiness: "", 0, False and None are false
truthy(x) ==
    CASE x.t = "str" -> x.v # <<>>
      [] x.t \in {"int", "bool"} -> x.v[1] # 0
      [] OTHER -> FALSE

\* Python ==: numbers compare by value (True == 1), anything else by type and value
PyEq(a, b) ==
    IF a.t \in {"int", "bool"} /\ b.t \in {"int", "bool"} THEN a.v = b.v ELSE a = b

\* str.lower(), character by character
LowerChar(c) == IF c >= NLetters /\ c < 2 * NLetters THEN c - NLetters ELSE c

lower(s) == [i \in 1..Len(s) |-> LowerChar(s[i])]

(***************************************************************************)
(* The words the model uses.                                               *)
(***************************************************************************)
sLocal == <<0, 1>>          \* "local"

sDrime == <<2, 3>>          \* "drime"

sS3 == <<3, 0>>             \* "s3"

sWork == <<1, 2>>           \* "work"

sLOCAL == <<Upper(0), Upper(1)>>    \* "LOCAL"

sDrimeCap == <<Upper(2), 3>>        \* "Drime"

sA == <<0>>                 \* "a"

sB == <<1>>                 \* "b"

sC == <<2>>                 \* "c"

SensitiveKeys == {"password", "api_key", "drime_password"}

(***************************************************************************)
(* The secret codec (vaultconfig.obscure): a stream cipher keyed by a      *)
(* random initialisation vector that is prepended to the token.            *)
(***************************************************************************)
IVLen == 2

IVs == {<<i, 1>> : i \in 0..(NumIVs - 1)}

Pad(iv, i) == (iv[1] + iv[2] + i) % NChars

obscure(s, iv) ==
    IF s = <<>> THEN <<>>
    ELSE iv \o [i \in 1..Len(s) |-> (s[i] + Pad(iv, i)) % NChars]

\* reveal raises ValueError on a string that is no token
CanReveal(x) == Len(x) >= IVLen

reveal(x) ==
    [i \in 1..(Len(x) - IVLen) |->
        (x[i + IVLen] + NChars - Pad(SubSeq(x, 1, IVLen), i)) % NChars]

is_obscured(x) == x # <<>> /\ CanReveal(x)

(***************************************************************************)
(* vaultconfig.ConfigManager: the named collection behind the store.       *)
(* store is a function from the stored names to their on-disk records.     *)
(***************************************************************************)
LexLess(a, b) ==
    \E i \in 1..(Len(a) + 1) :
        /\ i <= Len(b)
        /\ \A j \in 1..(i - 1) : a[j] = b[j]
        /\ (i > Len(a) \/ a[i] < b[i])

RECURSIVE SortedNames(_)
SortedNames(S) ==
    IF S = {} THEN <<>>
    ELSE LET m == CHOOSE x \in S : \A y \in S \ {x} : LexLess(x, y)
         IN <<m>> \o SortedNames(S \ {m})

list_configs(st) == SortedNames(DOMAIN st)

has_config(st, name) == name \in DOMAIN st

add_config(st, name, config) ==
    [n \in DOMAIN st \cup {name} |-> IF n = name THEN config ELSE st[n]]

remove_config(st, name) == [n \in DOMAIN st \ {name} |-> st[n]]

(***************************************************************************)
(* config.py: BackendConfig                                                *)
(***************************************************************************)
\* BackendConfig.get(key, default) of a record's config mapping
RevealOrRaw(key, value) ==
    IF isstr(value) /\ key \in SensitiveKeys
    THEN IF CanReveal(value.v) THEN Str(reveal(value.v)) ELSE value
    ELSE value

get(config, key, default) ==
    RevealOrRaw(key, IF key \in DOMAIN config THEN config[key] ELSE default)

get_all(config) == [k \in DOMAIN config |-> RevealOrRaw(k, config[k])]

(***************************************************************************)
(* config.py: PyWebDAVConfigManager                                        *)
(***************************************************************************)
list_backends(st) == list_configs(st)

has_backend(st, name) == has_config(st, name)

\* the type a record's data carries: data.pop("type", "local")
PopType(data) == IF "type" \in DOMAIN data THEN data["type"] ELSE Str(sLocal)

get_backend(st, name) ==
    IF ~has_config(st, name) THEN [found |-> FALSE]
    ELSE LET data == st[name]
         IN [found |-> TRUE,
             name |-> name,
             backend_type |-> PopType(data),
             config |-> [k \in DOMAIN data \ {"type"} |-> data[k]]]

\* {"type": backend_type, **config}: a key of config replaces the one before it
FullConfig(backend_type, config) ==
    [k \in {"type"} \cup DOMAIN config |->
        IF k \in DOMAIN config THEN config[k] ELSE backend_type]

\* fault model: only the key password is looked at
ToObscure_PasswordOnly(full, obscure_passwords) ==
    IF obscure_passwords
    THEN {k \in {"password"} \cap DOMAIN full :
            isstr(full[k]) /\ ~is_obscured(full[k].v)}
    ELSE {}

\* fault model: is_obscured is not asked, a token is obscured again
ToObscure_NoCheck(full, obscure_passwords) ==
    IF obscure_passwords
    THEN {k \in SensitiveKeys \cap DOMAIN full : isstr(full[k])}
    ELSE {}

\* the keys add_backend passes to obscure.obscure
ToObscure(full, obscure_passwords) ==
    IF obscure_passwords
    THEN {k \in SensitiveKeys \cap DOMAIN full :
            isstr(full[k]) /\ ~is_obscured(full[k].v)}
    ELSE {}

\* the record add_backend hands to add_config; ivs[k] is the vector drawn for key k
Obscured(full, obscure_passwords, ivs) ==
    [k \in DOMAIN full |->
        IF k \in ToObscure(full, obscure_passwords)
        THEN Str(obscure(full[k].v, ivs[k]))
        ELSE full[k]]

Merge(f, g) == [k \in DOMAIN f \cup DOMAIN g |-> IF k \in DOMAIN f THEN f[k] ELSE g[k]]

\* fault model: the new record is merged into the one the store holds
add_backend_Merge(st, name, backend_type, config, obscure_passwords, ivs) ==
    add_config(st, name,
               Merge(Obscured(FullConfig(backend_type, config), obscure_passwords, ivs),
                     IF has_config(st, name) THEN st[name] ELSE [k \in {} |-> None]))

add_backend(st, name, backend_type, config, obscure_passwords, ivs) ==
    add_config(st, name,
               Obscured(FullConfig(backend_type, config), obscure_passwords, ivs))

remove_backend(st, name) ==
    [st |-> remove_config(st, name), ret |-> has_config(st, name)]

\* fault model: the type of the record is not compared
get_backend_names_by_type_All(st, backend_type) == list_backends(st)

get_backend_names_by_type(st, backend_type) ==
    LET Keep(name) ==
            LET backend == get_backend(st, name)
            IN backend.found /\ PyEq(backend.backend_type, backend_type)
    IN SelectSeq(list_backends(st), Keep)



(***************************************************************************)
(* The store under a sequence of add, re-save, remove and filter calls.    *)
(* hist[name] holds the arguments of the most recent add_backend for a     *)
(* name whose last operation was an add (config, backend_type and          *)
(* obscure_passwords) and those of its most recent add that was not a      *)
(* re-save of what the store held (plain, plainObs); last holds the most   *)
(* recent call and what it returned.                                       *)
(***************************************************************************)
EmptyMap == [k \in {} |-> None]

StoreNames == {sA, sB, sC}

Types == {Str(sLocal), Str(sDrime)}

\* a secret no codec token can be mistaken for, and one that reads as a token
ShortSecret == <<3>>

TokenLike == <<1, 2, 3>>

FieldInputs ==
    { [path |-> Str(sWork)],
      [api_key |-> Str(ShortSecret)],
      [api_key |-> Str(TokenLike), workspace_id |-> Num(1)],
      [password |-> Num(7), path |-> Str(sS3)],
      [type |-> Str(sDrime), readonly |-> Bool(TRUE)],
      [drime_password |-> Str(<<>>)] }

\* the third name takes one mapping only: it is there for the order of the listings
AddInputs(name) ==
    IF name = sC
    THEN {[backend_type |-> t, config |-> [path |-> Str(sWork)],
           obscure_passwords |-> TRUE] : t \in Types}
    ELSE [backend_type : Types, config : FieldInputs, obscure_passwords : BOOLEAN]

NoRun == [route |-> "none"]

Init ==
    /\ store = EmptyMap
    /\ hist = EmptyMap
    /\ last = [op |-> "init", name |-> <<>>, ret |-> <<>>]
    /\ pc = "store"
    /\ run = NoRun

Record(name, inp, plain, plainObs) ==
    [n \in DOMAIN hist \cup {name} |->
        IF n = name
        THEN [backend_type |-> inp.backend_type,
              config |-> inp.config,
              obscure_passwords |-> inp.obscure_passwords,
              plain |-> plain,
              plainObs |-> plainObs]
        ELSE hist[n]]

AddBackend ==
    /\ pc = "store"
    /\ \E name \in StoreNames : \E inp \in AddInputs(name) :
        \E ivs \in [ToObscure(FullConfig(inp.backend_type, inp.config),
                              inp.obscure_passwords) -> IVs] :
            /\ store' = add_backend(store, name, inp.backend_type, inp.config,
                                    inp.obscure_passwords, ivs)
            /\ hist' = Record(name, inp, inp.config, inp.obscure_passwords)
            /\ last' = [op |-> "add", name |-> name, ret |-> <<>>]
    /\ UNCHANGED <<pc, run>>

\* add_backend with the type and the raw (still obscured) fields read from the store
ReSave ==
    /\ pc = "store"
    /\ \E name \in DOMAIN store \ {sC} :
        LET backend == get_backend(store, name)
            inp == [backend_type |-> backend.backend_type,
                    config |-> backend.config,
                    obscure_passwords |-> TRUE]
        IN \E ivs \in [ToObscure(FullConfig(inp.backend_type, inp.config), TRUE) -> IVs] :
            /\ store' = add_backend(store, name, inp.backend_type, inp.config, TRUE, ivs)
            /\ hist' = Record(name, inp, hist[name].plain, hist[name].plainObs)
            /\ last' = [op |-> "resave", name |-> name, ret |-> <<>>]
    /\ UNCHANGED <<pc, run>>

RemoveBackend ==
    /\ pc = "store"
    /\ \E name \in StoreNames :
        LET r == remove_backend(store, name)
        IN /\ store' = r.st
           /\ hist' = [n \in DOMAIN hist \ {name} |-> hist[n]]
           /\ last' = [op |-> "remove", name |-> name, ret |-> r.ret]
    /\ UNCHANGED <<pc, run>>

FilterByType ==
    /\ pc = "store"
    /\ \E t \in Types :
        last' = [op |-> "filter", name |-> t.v,
                 ret |-> get_backend_names_by_type(store, t)]
    /\ UNCHANGED <<store, hist, pc, run>>

Next == AddBackend \/ ReSave \/ RemoveBackend \/ FilterByType

Spec == Init /\ [][Next]_vars

(***************************************************************************)
(* cli.py: the dispatcher.  An invocation is one evaluation of cli: its    *)
(* result records the path taken, the provider constructor calls and their *)
(* arguments, the calls of run_webdav_server, what was printed and the     *)
(* exit code.  fault is what the environment does to this invocation:      *)
(* "import" (pydrime is not installed), "construct" (the provider's        *)
(* constructor raises), "server" (run_webdav_server raises) or "none".     *)
(***************************************************************************)
DEFAULT_PATH == Str(<<0, 0>>)

DEFAULT_HOST == Str(<<1, 1>>)

DEFAULT_PORT == Num(8)

DEFAULT_CACHE_TTL == Num(3)

DEFAULT_MAX_FILE_SIZE == Num(5)

\* dict.get(key, default) of a plain mapping
DictGet(d, key, default) == IF key \in DOMAIN d THEN d[key] ELSE default

Msg(msg, words) == [msg |-> msg, arg |-> words]

\* fault model: a half-given pair of credentials is passed on as it is
ResolveAuth_NoDowngrade(username, password, no_auth) ==
    IF no_auth
    THEN [username |-> None, password |-> None, out |-> <<>>]
    ELSE [username |-> username, password |-> password, out |-> <<>>]

\* the credentials after the authentication flags are handled, and the warning
ResolveAuth(username, password, no_auth) ==
    IF no_auth
    THEN [username |-> None, password |-> None, out |-> <<>>]
    ELSE IF truthy(username) /\ ~truthy(password)
    THEN [username |-> None, password |-> password,
          out |-> <<Msg("warn_no_password", <<>>)>>]
    ELSE IF ~truthy(username) /\ truthy(password)
    THEN [username |-> username, password |-> None,
          out |-> <<Msg("warn_no_username", <<>>)>>]
    ELSE [username |-> username, password |-> password, out |-> <<>>]

\* the outcomes of the try block that builds the provider
Exit1(calls, out) ==
    [ok |-> FALSE, calls |-> calls, provider |-> <<>>, label |-> <<>>, out |-> out]

Built(provider, label, out) ==
    [ok |-> TRUE, calls |-> <<provider>>, provider |-> <<provider>>,
     label |-> label, out |-> out]

\* fault model: the exception of the constructor is swallowed
Construct_Swallow(provider, label, out, fault) == Built(provider, label, out)

\* a constructor call: it returns the provider, or raises and the except clause exits
Construct(provider, label, out, fault) ==
    IF fault = "construct"
    THEN Exit1(<<provider>>, out \o <<Msg("error_initializing", <<>>)>>)
    ELSE Built(provider, label, out)

LocalStorageProvider(root_path, readonly) ==
    [kind |-> "local", root_path |-> root_path, readonly |-> readonly]

DrimeDAVProvider(api_key, workspace_id, readonly, cache_ttl, max_file_size) ==
    [kind |-> "drime", api_key |-> api_key, workspace_id |-> workspace_id,
     readonly |-> readonly, cache_ttl |-> cache_ttl,
     max_file_size |-> max_file_size]

\* fault model: the fields are read as stored, secrets still obscured
ConfigOf_Raw(backend_config) == backend_config.config

\* config = backend_config.get_all()
ConfigOf(backend_config) == get_all(backend_config.config)

\* fault model: the type token is compared as it is spelled
TypeToken_Exact(backend_type) == backend_type.v

\* backend_type.lower()
TypeToken(backend_type) == lower(backend_type.v)

\* the try block of _start_from_config
ProviderFromConfig(backend_config, fault) ==
    LET backend_type == backend_config.backend_type
        config == ConfigOf(backend_config)
    IN IF PyEq(backend_type, Str(sLocal))
       THEN LET root_path == DictGet(config, "path", DEFAULT_PATH)
                readonly == DictGet(config, "readonly", Bool(FALSE))
            IN Construct(LocalStorageProvider(root_path, readonly),
                         <<backend_config.name, root_path.v>>,
                         <<Msg("init_local", <<>>)>>, fault)
       ELSE IF PyEq(backend_type, Str(sDrime))
       THEN IF fault = "import"
            THEN Exit1(<<>>, <<Msg("error_pydrime_missing", <<>>)>>)
            ELSE LET api_key == DictGet(config, "api_key", None)
                     workspace_id_config == DictGet(config, "workspace_id", Num(0))
                     readonly == DictGet(config, "readonly", Bool(FALSE))
                     cache_ttl == DictGet(config, "cache_ttl", DEFAULT_CACHE_TTL)
                     max_file_size ==
                         DictGet(config, "max_file_size", DEFAULT_MAX_FILE_SIZE)
                 IN IF ~truthy(api_key)
                    THEN Exit1(<<>>, <<Msg("error_api_key_required",
                                           <<backend_config.name>>)>>)
                    ELSE Construct(DrimeDAVProvider(api_key, workspace_id_config,
                                                    readonly, cache_ttl,
                                                    max_file_size),
                                   <<backend_config.name, workspace_id_config.v>>,
                                   <<Msg("connecting_drime", <<>>)>>, fault)
       ELSE Exit1(<<>>, <<Msg("error_unknown_type", <<backend_type.v>>)>>)

\* the try block of _start_from_type
ProviderFromType(st, backend_type, path, readonly, cache_ttl, max_file_size, workspace_id, api_key_env, fault) ==
    IF TypeToken(backend_type) = sLocal
    THEN Construct(LocalStorageProvider(path, readonly), <<sLocal, path.v>>,
                   <<Msg("init_local", <<>>)>>, fault)
    ELSE IF TypeToken(backend_type) = sDrime
    THEN IF fault = "import"
         THEN Exit1(<<>>, <<Msg("error_pydrime_missing", <<>>)>>)
         ELSE IF ~truthy(api_key_env)
         THEN Exit1(<<>>, <<Msg("error_env_api_key_required", <<>>)>>)
         ELSE Construct(DrimeDAVProvider(api_key_env, workspace_id, readonly,
                                         cache_ttl, max_file_size),
                        <<sDrime, workspace_id.v>>,
                        <<Msg("connecting_drime", <<>>)>>, fault)
    ELSE Exit1(<<>>,
               <<Msg("error_unknown_backend", <<backend_type.v>>),
                 Msg("available_backends", <<sLocal, sDrime>>),
                 Msg("configured_backends", list_backends(st))>>)

\* the rest of _start_from_config and of _start_from_type: the server is started
\* with the provider, unless the try block has exited
StartServer(route, built, auth, a, fault) ==
    LET call == [provider |-> built.provider[1],
                 host |-> a.host, port |-> a.port,
                 username |-> auth.username, password |-> auth.password,
                 verbose |-> a.verbose + 1,
                 ssl_cert |-> a.ssl_cert, ssl_key |-> a.ssl_key,
                 server_name |-> built.label]
    IN [route |-> route,
        calls |-> built.calls,
        provider |-> built.provider,
        served |-> IF built.ok THEN <<call>> ELSE <<>>,
        exit |-> IF built.ok /\ fault # "server" THEN 0 ELSE 1,
        out |-> auth.out \o built.out
                \o (IF built.ok THEN <<Msg("starting", <<>>)>> ELSE <<>>)
                \o (IF built.ok /\ fault = "server"
                    THEN <<Msg("error_running_server", <<>>)>> ELSE <<>>),
        args |-> a,
        fault |-> fault]

start_from_config(backend_config, auth, a, fault) ==
    StartServer("config", ProviderFromConfig(backend_config, fault), auth, a, fault)

start_from_type(st, backend_type, auth, a, fault) ==
    StartServer("type",
                ProviderFromType(st, backend_type, a.path, a.readonly, a.cache_ttl,
                                 a.max_file_size, a.workspace_id, a.env_api_key,
                                 fault),
                auth, a, fault)

\* fault model: a built-in type name is tried before the store is asked
cli_TypeFirst(st, a, fault) ==
    LET backend == IF a.backend = None THEN Str(sLocal) ELSE a.backend
        auth == ResolveAuth(a.username, a.password, a.no_auth)
        backend_config == get_backend(st, backend.v)
    IN IF backend_config.found /\ lower(backend.v) \notin {sLocal, sDrime}
       THEN start_from_config(backend_config, auth, a, fault)
       ELSE start_from_type(st, backend, auth, a, fault)

\* cli with no subcommand: a is the parsed command line and the environment
cli(st, a, fault) ==
    LET backend == IF a.backend = None THEN Str(sLocal) ELSE a.backend
        auth == ResolveAuth(a.username, a.password, a.no_auth)
        backend_config == get_backend(st, backend.v)
    IN IF backend_config.found
       THEN start_from_config(backend_config, auth, a, fault)
       ELSE start_from_type(st, backend, auth, a, fault)

(***************************************************************************)
(* One run of the program: backends are configured, then the server is     *)
(* started once.                                                           *)
(***************************************************************************)
CliNames == {sLocal, sDrime, sWork}

CliInputs ==
    { [backend_type |-> Str(sLocal),
       config |-> [path |-> Str(sWork), readonly |-> Bool(TRUE)]],
      [backend_type |-> Str(sLocal), config |-> EmptyMap],
      [backend_type |-> Str(sDrime),
       config |-> [api_key |-> Str(ShortSecret), workspace_id |-> Num(2),
                   readonly |-> Bool(TRUE), cache_ttl |-> Num(4),
                   max_file_size |-> Num(6)]],
      [backend_type |-> Str(sDrime), config |-> [api_key |-> Str(ShortSecret)]],
      [backend_type |-> Str(sDrime), config |-> [workspace_id |-> Num(2)]],
      [backend_type |-> Str(sDrime), config |-> [api_key |-> Str(<<>>)]],
      [backend_type |-> Str(sS3), config |-> EmptyMap] }

\* the names local and drime take every input, the third name three of them
CliInputsOf(name) ==
    IF name = sWork
    THEN {inp \in CliInputs : DOMAIN inp.config \in {{"path", "readonly"}, {"api_key"}}}
    ELSE CliInputs

Backends ==
    {None, Str(sLocal), Str(sLOCAL), Str(sDrime), Str(sDrimeCap), Str(sS3),
     Str(sWork)}

\* the flags of the command line: all at their defaults, and all set
Flags ==
    { [path |-> DEFAULT_PATH, readonly |-> Bool(FALSE),
       cache_ttl |-> DEFAULT_CACHE_TTL, max_file_size |-> DEFAULT_MAX_FILE_SIZE,
       workspace_id |-> Num(0), verbose |-> 0,
       host |-> DEFAULT_HOST, port |-> DEFAULT_PORT, ssl_cert |-> None,
       ssl_key |-> None],
      [path |-> Str(sS3), readonly |-> Bool(TRUE), cache_ttl |-> Num(1),
       max_file_size |-> Num(2), workspace_id |-> Num(1), verbose |-> 2,
       host |-> Str(<<0, 0, 0>>), port |-> Num(9), ssl_cert |-> Str(<<2>>),
       ssl_key |-> Str(<<3>>)] }

Credentials == {None, Str(<<>>), Str(<<1>>)}

Faults == {"none", "import", "construct", "server"}

InitCli ==
    /\ store = EmptyMap
    /\ hist = EmptyMap
    /\ last = [op |-> "init", name |-> <<>>, ret |-> <<>>]
    /\ pc = "setup"
    /\ run = NoRun

\* pywebdavserver config add: a backend is stored
Configure ==
    /\ pc = "setup"
    /\ \E name \in CliNames : \E inp \in CliInputsOf(name) :
        \E ivs \in [ToObscure(FullConfig(inp.backend_type, inp.config), TRUE) -> IVs] :
            /\ Cardinality(DOMAIN store \cup {name}) <= MaxStored
            /\ store' = add_backend(store, name, inp.backend_type, inp.config,
                                    TRUE, ivs)
    /\ UNCHANGED <<hist, last, pc, run>>

\* pywebdavserver [flags]: the server is started
Serve ==
    /\ pc = "setup"
    /\ \E backend \in Backends : \E flags \in Flags :
        \E username \in Credentials : \E password \in Credentials :
        \E no_auth \in BOOLEAN : \E env_api_key \in Credentials :
        \E fault \in Faults :
            run' = cli(store,
                       Merge([backend |-> backend, username |-> username,
                              password |-> password, no_auth |-> no_auth,
                              env_api_key |-> env_api_key],
                             flags),
                       fault)
    /\ pc' = "done"
    /\ UNCHANGED <<store, hist, last>>

NextCli == Configure \/ Serve

SpecCli == InitCli /\ [][NextCli]_vars

(***************************************************************************)
(* Claims about the store.                                                 *)
(***************************************************************************)
Range(q) == {q[i] : i \in 1..Len(q)}

\* C1 as stated: whatever was passed to add_backend, every value the store holds
\* under a sensitive key is an obscured token.
C1_AllSecretsObscured ==
    \A n \in DOMAIN store : \A k \in SensitiveKeys \cap DOMAIN store[n] :
        isstr(store[n][k]) /\ is_obscured(store[n][k].v)

\* C1 amended: a non-empty string written under a sensitive key with
\* obscure_passwords=True is held as an obscured token, and as the string passed in
\* only when that string already was one; a value written with
\* obscure_passwords=False, and a value that is no string, is held as passed in.
C1_ObscuredWhenAsked ==
    \A n \in DOMAIN hist : \A k \in SensitiveKeys \cap DOMAIN hist[n].config :
        LET given == hist[n].config[k]
            kept == store[n][k]
        IN /\ (hist[n].obscure_passwords /\ isstr(given) /\ given.v # <<>>)
                => /\ isstr(kept)
                   /\ is_obscured(kept.v)
                   /\ (kept = given <=> is_obscured(given.v))
           /\ (~hist[n].obscure_passwords \/ ~isstr(given)) => kept = given

C1_Witness ==
    \E n \in DOMAIN hist :
        /\ hist[n].obscure_passwords
        /\ "api_key" \in DOMAIN hist[n].config
        /\ hist[n].config["api_key"] = Str(ShortSecret)
        /\ is_obscured(store[n]["api_key"].v)
        /\ store[n]["api_key"] # Str(ShortSecret)

\* C6 as stated: every non-empty string saved under a sensitive key with
\* obscure_passwords=True is held as a token and read back unchanged by get,
\* also after the stored token has been saved again.
C6_RoundTripEveryString ==
    \A n \in DOMAIN hist : \A k \in SensitiveKeys \cap DOMAIN hist[n].plain :
        LET s == hist[n].plain[k]
        IN (hist[n].plainObs /\ isstr(s) /\ s.v # <<>>)
            => /\ is_obscured(store[n][k].v)
               /\ get(get_backend(store, n).config, k, None) = s

\* C6 amended: the same for every non-empty string that is not itself recognised
\* as an obscured token; and saving the record read from the store again leaves
\* the stored token as it is, whatever vector the codec would draw.
C6_RoundTrip ==
    \A n \in DOMAIN hist : \A k \in SensitiveKeys \cap DOMAIN hist[n].plain :
        LET s == hist[n].plain[k]
            backend == get_backend(store, n)
        IN (hist[n].plainObs /\ isstr(s) /\ s.v # <<>> /\ ~is_obscured(s.v))
            => /\ is_obscured(store[n][k].v)
               /\ get(backend.config, k, None) = s
               /\ \A ivs \in [SensitiveKeys -> IVs] :
                    add_backend(store, n, backend.backend_type, backend.config,
                                TRUE, ivs)[n][k] = store[n][k]

C6_Witness ==
    \E n \in DOMAIN hist :
        /\ last = [op |-> "resave", name |-> n, ret |-> <<>>]
        /\ hist[n].plainObs
        /\ "api_key" \in DOMAIN hist[n].plain
        /\ hist[n].plain["api_key"] = Str(ShortSecret)
        /\ hist[n].config["api_key"] = store[n]["api_key"]
        /\ get(get_backend(store, n).config, "api_key", None) = Str(ShortSecret)

\* C7 as stated: after add_backend(name, T, fields) the record's type is T, read
\* through get_backend and through get_backend_names_by_type.
C7_TypeIsArgument ==
    \A n \in DOMAIN hist :
        /\ get_backend(store, n).backend_type = hist[n].backend_type
        /\ n \in Range(get_backend_names_by_type(store, hist[n].backend_type))

\* what the accessor returns for a value that was passed to add_backend
ReadBack(k, given) ==
    IF k \in SensitiveKeys /\ isstr(given) /\ is_obscured(given.v)
    THEN Str(reveal(given.v))
    ELSE given

\* C8 as stated: a name is absent unless its last operation was an add, and then
\* get returns exactly the fields of that add.
C8_ExactFields ==
    \A n \in StoreNames :
        LET backend == get_backend(store, n)
        IN IF n \in DOMAIN hist
           THEN backend.found /\ has_backend(store, n)
                /\ get_all(backend.config) = hist[n].config
           ELSE ~backend.found /\ ~has_backend(store, n)

C8_State ==
    \A n \in StoreNames :
        LET backend == get_backend(store, n)
        IN IF n \in DOMAIN hist
           THEN /\ backend.found /\ has_backend(store, n)
                /\ DOMAIN backend.config = DOMAIN hist[n].config \ {"type"}
                /\ \A k \in DOMAIN backend.config :
                    get(backend.config, k, None) = ReadBack(k, hist[n].config[k])
           ELSE ~backend.found /\ ~has_backend(store, n)

C8_Step ==
    /\ last'.op = "remove"
        => /\ last'.ret <=> last'.name \in DOMAIN store
           /\ last'.name \notin DOMAIN store'
    /\ \A n \in StoreNames :
        n # last'.name
            => /\ n \in DOMAIN store' <=> n \in DOMAIN store
               /\ n \in DOMAIN store => store'[n] = store[n]

\* C8 amended: a name is absent exactly when it was never added or its last
\* operation was a remove; otherwise get holds the keys of the most recent add
\* other than type, nothing of an earlier record, and its accessor returns each
\* value as passed, decoded when a sensitive value passed in was itself a token;
\* remove returns true exactly when the record existed, and no operation on one
\* name changes the record of another.
C8_LastWriteWins == []C8_State /\ [][C8_Step]_vars

C8_Witness ==
    \E n \in DOMAIN hist : \E m \in StoreNames \ DOMAIN hist :
        /\ last = [op |-> "remove", name |-> m, ret |-> TRUE]
        /\ DOMAIN hist[n].config = {"path"}
        /\ DOMAIN get_backend(store, n).config = {"path"}

\* the position of name n in the listing q
Pos(q, n) == CHOOSE i \in 1..Len(q) : q[i] = n

C9_State ==
    \A t \in Types :
        LET r == get_backend_names_by_type(store, t)
            l == list_backends(store)
        IN /\ Range(r) = {n \in Range(l) : PyEq(get_backend(store, n).backend_type, t)}
           /\ Cardinality(Range(r)) = Len(r)
           /\ \A i, j \in 1..Len(r) : i < j => Pos(l, r[i]) < Pos(l, r[j])
           /\ (last.op = "filter" /\ last.name = t.v) => last.ret = r

C9_Step == last'.op = "filter" => store' = store

\* C9: get_backend_names_by_type(t) returns the names of list_backends() whose
\* record has type t, each once and in the order of list_backends(); a second call
\* returns what the first returned, and the call leaves the store as it was.
C9_FilterByType == []C9_State /\ [][C9_Step]_vars

C9_Witness ==
    /\ last.op = "filter"
    /\ last.name = sLocal
    /\ last.ret = <<sA, sC>>
    /\ sB \in DOMAIN store

(***************************************************************************)
(* Claims about the dispatcher.  They are read off a finished invocation:  *)
(* run.args is its command line and environment, store is what it found.   *)
(***************************************************************************)
\* the requested identifier: "local" when --backend is omitted
Requested == IF run.args.backend = None THEN sLocal ELSE run.args.backend.v

Named == Requested \in DOMAIN store

StoredType == store[Requested]["type"]

\* C2: the named-config path is taken exactly when the store holds a record under
\* the requested identifier as it is spelled, the legacy path otherwise, and on the
\* named path the stored type decides the provider, also under the names local and
\* drime.
C2_Dispatch ==
    pc = "done" =>
        /\ run.route = (IF Named THEN "config" ELSE "type")
        /\ (Named /\ run.calls # <<>>) =>
                \/ StoredType = Str(sLocal) /\ run.calls[1].kind = "local"
                \/ StoredType = Str(sDrime) /\ run.calls[1].kind = "drime"
        /\ (Named /\ StoredType \notin {Str(sLocal), Str(sDrime)}) => run.calls = <<>>

C2_Witness ==
    /\ pc = "done"
    /\ run.args.backend = None
    /\ Named
    /\ StoredType = Str(sDrime)
    /\ run.route = "config"
    /\ Len(run.served) = 1
    /\ run.served[1].provider.kind = "drime"

\* the provider a stored record describes
FromRecord(rec) ==
    IF rec["type"] = Str(sLocal)
    THEN [kind |-> "local",
          root_path |-> IF "path" \in DOMAIN rec THEN rec["path"] ELSE DEFAULT_PATH,
          readonly |-> IF "readonly" \in DOMAIN rec THEN rec["readonly"]
                       ELSE Bool(FALSE)]
    ELSE [kind |-> "drime",
          api_key |-> Str(reveal(rec["api_key"].v)),
          workspace_id |-> IF "workspace_id" \in DOMAIN rec THEN rec["workspace_id"]
                           ELSE Num(0),
          readonly |-> IF "readonly" \in DOMAIN rec THEN rec["readonly"]
                       ELSE Bool(FALSE),
          cache_ttl |-> IF "cache_ttl" \in DOMAIN rec THEN rec["cache_ttl"]
                        ELSE DEFAULT_CACHE_TTL,
          max_file_size |-> IF "max_file_size" \in DOMAIN rec
                            THEN rec["max_file_size"] ELSE DEFAULT_MAX_FILE_SIZE]

\* C3: on the named-config path the provider is built from the stored record and
\* its defaults alone, whatever the command line says; on both paths the server
\* gets the host, port, ssl_cert and ssl_key of the command line.
C3_Precedence ==
    pc = "done" =>
        /\ (run.route = "config" /\ run.calls # <<>>) =>
                run.calls = <<FromRecord(store[Requested])>>
        /\ run.served # <<>> =>
                /\ run.served[1].host = run.args.host
                /\ run.served[1].port = run.args.port
                /\ run.served[1].ssl_cert = run.args.ssl_cert
                /\ run.served[1].ssl_key = run.args.ssl_key

C3_Witness ==
    /\ pc = "done"
    /\ run.route = "config"
    /\ StoredType = Str(sDrime)
    /\ DOMAIN store[Requested] = {"type", "api_key"}
    /\ run.args.workspace_id = Num(1)
    /\ run.args.host # DEFAULT_HOST
    /\ Len(run.served) = 1
    /\ run.served[1].provider.workspace_id = Num(0)
    /\ run.served[1].provider.api_key = Str(ShortSecret)
    /\ run.served[1].host = run.args.host

\* the backend is drime: by the stored type, or by the requested type
IsDrime ==
    IF Named THEN StoredType = Str(sDrime) ELSE Requested \in {sDrime, sDrimeCap}

IsLocal ==
    IF Named THEN StoredType = Str(sLocal) ELSE Requested \in {sLocal, sLOCAL}

NoCredential ==
    /\ IsDrime
    /\ IF Named
       THEN "api_key" \notin DOMAIN store[Requested]
            \/ store[Requested]["api_key"] = Str(<<>>)
       ELSE run.args.env_api_key \in {None, Str(<<>>)}

\* a reason for which the provider cannot be built
Fatal ==
    \/ NoCredential
    \/ ~IsDrime /\ ~IsLocal
    \/ IsDrime /\ run.fault = "import"
    \/ run.fault = "construct"

C5_Auth ==
    pc = "done" =>
        LET u == run.args.username
            p == run.args.password
        IN /\ run.served # <<>> =>
                LET su == run.served[1].username
                    sp == run.served[1].password
                IN /\ (truthy(su) /\ truthy(sp))
                        <=> (~run.args.no_auth /\ truthy(u) /\ truthy(p))
                   /\ (truthy(su) /\ truthy(sp)) => su = u /\ sp = p
                   /\ run.args.no_auth => su = None /\ sp = None
                   /\ (~run.args.no_auth /\ truthy(u) /\ ~truthy(p)) => su = None
                   /\ (~run.args.no_auth /\ ~truthy(u) /\ truthy(p)) => sp = None
                   /\ ~(truthy(u) /\ truthy(p)) => ~truthy(su) /\ ~truthy(sp)
           /\ (~Fatal /\ run.fault = "none") => run.exit = 0 /\ Len(run.served) = 1

C5_Witness ==
    /\ pc = "done"
    /\ ~run.args.no_auth
    /\ run.args.username = Str(<<1>>)
    /\ run.args.password = None
    /\ run.exit = 0
    /\ Len(run.served) = 1
    /\ run.served[1].username = None
    /\ run.served[1].password = None

Printed(msg, words) ==
    \E i \in 1..Len(run.out) : run.out[i].msg = msg /\ run.out[i].arg = words

\* C10: on the legacy path every casing of local builds the local provider from
\* the --path and --readonly flags, every casing of drime takes the drime branch,
\* and any other identifier exits with code 1 before any constructor call, after
\* printing the types local and drime and the name of every stored backend.
C10_LegacyType ==
    (pc = "done" /\ run.route = "type") =>
        /\ Requested \in {sLocal, sLOCAL} =>
                run.calls = <<LocalStorageProvider(run.args.path, run.args.readonly)>>
        /\ Requested \in {sDrime, sDrimeCap} =>
                IF run.fault # "import" /\ run.args.env_api_key = Str(<<1>>)
                THEN run.calls =
                        <<DrimeDAVProvider(run.args.env_api_key,
                                           run.args.workspace_id, run.args.readonly,
                                           run.args.cache_ttl,
                                           run.args.max_file_size)>>
                ELSE run.calls = <<>> /\ run.exit = 1
        /\ Requested \notin {sLocal, sLOCAL, sDrime, sDrimeCap} =>
                /\ run.exit = 1
                /\ run.calls = <<>>
                /\ run.served = <<>>
                /\ Printed("error_unknown_backend", <<Requested>>)
                /\ Printed("available_backends", <<sLocal, sDrime>>)
                /\ \E i \in 1..Len(run.out) :
                        /\ run.out[i].msg = "configured_backends"
                        /\ Range(run.out[i].arg) = DOMAIN store

C10_Witness ==
    /\ pc = "done"
    /\ run.route = "type"
    /\ Requested = sS3
    /\ DOMAIN store = {sLocal, sWork}
    /\ run.exit = 1
    /\ run.calls = <<>>
    /\ Printed("configured_backends", <<sLocal, sWork>>)

(***************************************************************************)
(* BackendConfig.get and get_all on one record.  The record is one that    *)
(* add_backend wrote: with obscure_passwords=False it holds its secrets as *)
(* a hand-edited file would, in plaintext.  last holds the call, its       *)
(* arguments and what it returned.                                         *)
(***************************************************************************)
GetKeys == {"api_key", "password", "path", "workspace_id"}

\* the defaults a caller passes: among them a token of the codec
Defaults ==
    {None, Num(0), Str(<<>>), Str(ShortSecret), Str(obscure(ShortSecret, <<0, 1>>))}

InitGet ==
    /\ \E inp \in AddInputs(sA) :
        \E ivs \in [ToObscure(FullConfig(inp.backend_type, inp.config),
                              inp.obscure_passwords) -> IVs] :
            store = add_backend(EmptyMap, sA, inp.backend_type, inp.config,
                                inp.obscure_passwords, ivs)
    /\ hist = EmptyMap
    /\ last = [op |-> "init", name |-> <<>>, ret |-> <<>>]
    /\ pc = "get"
    /\ run = NoRun

GetValue ==
    /\ pc = "get"
    /\ \E key \in GetKeys : \E default \in Defaults :
        last' = [op |-> "get", name |-> sA, key |-> key, default |-> default,
                 ret |-> get(get_backend(store, sA).config, key, default)]
    /\ UNCHANGED <<store, hist, pc, run>>

GetAll ==
    /\ pc = "get"
    /\ last' = [op |-> "get_all", name |-> sA,
                ret |-> get_all(get_backend(store, sA).config)]
    /\ UNCHANGED <<store, hist, pc, run>>

NextGet == GetValue \/ GetAll

SpecGet == InitGet /\ [][NextGet]_vars

\* C11: get(key, default) of a key the record holds is get_all()[key], the decoded
\* value when the key is sensitive and the stored string decodes and the stored
\* value otherwise; get(key, default) of a key the record lacks is default as it
\* was passed, also for a sensitive key and a string default.
C11_GetOrDefault ==
    last.op = "get" =>
        LET config == get_backend(store, last.name).config
        IN IF last.key \in DOMAIN config
           THEN /\ last.ret = get_all(config)[last.key]
                /\ last.ret =
                     (IF last.key \in SensitiveKeys /\ isstr(config[last.key])
                         /\ CanReveal(config[last.key].v)
                      THEN Str(reveal(config[last.key].v))
                      ELSE config[last.key])
           ELSE last.ret = last.default

=============================================================================
